---- MODULE Spec2Model ----
(***************************************************************************)
(* Model of the SES bounce blacklist service (src/src/main.rs and          *)
(* src/src/domain.rs): the SNS ingestion endpoint, the blacklist lookup    *)
(* endpoint and the blacklist table they share, on either of the two       *)
(* configured backends.                                                    *)
(*                                                                         *)
(* Strings that the code inspects character by character (recipient        *)
(* addresses) are sequences of one-character strings; strings the code     *)
(* searches for a phrase (database error messages) are sequences of words. *)
(* A JSON text is [json |-> FALSE] when it does not parse, and otherwise   *)
(* [json |-> TRUE, obj |-> r] with r a record holding exactly the fields   *)
(* that are present.  Option values are sequences of length 0 or 1.        *)
(*                                                                         *)
(* Four specifications share the variables.  Spec serves the requests one  *)
(* after the other; SpecConcurrent lets bounce requests overlap;           *)
(* SpecSessions follows the backend connections of the storage operations; *)
(* SpecNormalize applies extract_email_address to every short string.      *)
(***************************************************************************)
EXTENDS Bags, FiniteSets, Integers, Sequences, TLC

\* Bounds of the model.
MaxRecipients == 2
MaxTenant == 2
MaxInFlight == 2

Tenants == 1..MaxTenant
Slots == 1..MaxInFlight

None == <<>>
Some(x) == <<x>>
IsNone(o) == Len(o) = 0
IsSome(o) == Len(o) = 1

(***************************************************************************)
(* domain.rs: the two decoded types and their decoders.                    *)
(***************************************************************************)
SnsNotificationType == {"SubscriptionConfirmation", "Notification"}

NotificationType == {"Bounce", "Complaint", "Delivery", "AmazonSnsSubscriptionSucceeded"}

\* The fields of Bounce that are not Option: the derived Deserialize
\* requires each of them.
BounceRequired == {"feedbackId", "bounceType", "bounceSubType", "bouncedRecipients", "timestamp"}

\* serde_json::from_slice::<SnsNotification>(&bytes).ok()
DecodeSnsNotification(bytes) ==
    IF ~bytes.json THEN None
    ELSE LET o == bytes.obj IN
         IF "Type" \notin DOMAIN o THEN None
         ELSE IF o.Type \notin SnsNotificationType THEN None
         ELSE Some([type_field |-> o.Type,
                    message |-> IF "Message" \in DOMAIN o THEN Some(o.Message) ELSE None,
                    subscribe_url |-> IF "SubscribeURL" \in DOMAIN o
                                      THEN Some(o.SubscribeURL) ELSE None])

\* Deserialize for BouncedRecipient: emailAddress is required.
DecodeBouncedRecipient(r) ==
    IF "emailAddress" \notin DOMAIN r THEN None
    ELSE Some([email_address |-> r.emailAddress,
               action |-> None, status |-> None, diagnostic_code |-> None])

\* Deserialize for Bounce.
DecodeBounce(b) ==
    IF ~(BounceRequired \subseteq DOMAIN b) THEN None
    ELSE LET rs == [i \in 1..Len(b.bouncedRecipients) |->
                        DecodeBouncedRecipient(b.bouncedRecipients[i])] IN
         IF \E i \in 1..Len(rs) : IsNone(rs[i]) THEN None
         ELSE Some([feedback_id |-> b.feedbackId,
                    bounce_type |-> b.bounceType,
                    bounce_sub_type |-> b.bounceSubType,
                    bounced_recipients |-> [i \in 1..Len(rs) |-> rs[i][1]],
                    timestamp |-> b.timestamp,
                    remote_mta_ip |-> None,
                    reporting_mta |-> None])

\* serde_json::from_str::<Message>(&message), as a Result turned Option.
DecodeMessage(text) ==
    IF ~text.json THEN None
    ELSE LET o == text.obj IN
         IF "notificationType" \notin DOMAIN o THEN None
         ELSE IF o.notificationType \notin NotificationType THEN None
         ELSE IF "bounce" \notin DOMAIN o
              THEN Some([notification_type |-> o.notificationType,
                         bounce |-> None, message |-> None, mail |-> None])
              ELSE LET b == DecodeBounce(o.bounce) IN
                   IF IsNone(b) THEN None
                   ELSE Some([notification_type |-> o.notificationType,
                              bounce |-> b, message |-> None, mail |-> None])

\* serde_json::to_string(&msg): every field is written, an absent Option
\* as null (None here), under its camelCase name.
SerializeMessage(msg) ==
    [notificationType |-> msg.notification_type,
     bounce |-> IF IsNone(msg.bounce) THEN None
                ELSE LET b == msg.bounce[1] IN
                     Some([feedbackId |-> b.feedback_id,
                           bounceType |-> b.bounce_type,
                           bounceSubType |-> b.bounce_sub_type,
                           bouncedRecipients |->
                               [i \in 1..Len(b.bounced_recipients) |->
                                   [emailAddress |-> b.bounced_recipients[i].email_address,
                                    action |-> None, status |-> None,
                                    diagnosticCode |-> None]],
                           timestamp |-> b.timestamp,
                           remoteMtaIp |-> None,
                           reportingMTA |-> None]),
     message |-> None,
     mail |-> None]

(***************************************************************************)
(* main.rs: extract_email_address.                                         *)
(***************************************************************************)
HasChar(s, c) == \E i \in 1..Len(s) : s[i] = c

\* The matches of the regex <(.*)> that start at position i: '.' matches
\* any character but a line feed.
RegexEnds(s, i) ==
    {j \in (i + 1)..Len(s) :
        /\ s[j] = ">"
        /\ \A k \in (i + 1)..(j - 1) : s[k] # "\n"}

RegexStarts(s) == {i \in 1..Len(s) : s[i] = "<" /\ RegexEnds(s, i) # {}}

Min(S) == CHOOSE x \in S : \A y \in S : x <= y
Max(S) == CHOOSE x \in S : \A y \in S : x >= y

\* Variant: the first and the last character are dropped, whatever they are.
ExtractDropsFirstAndLast(input) ==
    IF Len(input) < 2 THEN input ELSE SubSeq(input, 2, Len(input) - 1)

extract_email_address(input) ==
    IF ~HasChar(input, "<") \/ ~HasChar(input, ">") THEN input
    ELSE IF RegexStarts(input) = {} THEN input
    ELSE LET i == Min(RegexStarts(input))
             j == Max(RegexEnds(input, i))
         IN SubSeq(input, i + 1, j - 1)

(***************************************************************************)
(* The blacklist table and the two backends.  The table is a bag of rows   *)
(* [domain_id, email, reason]; the auto-assigned id is never read.         *)
(***************************************************************************)
Row(domain_id, email, reason) ==
    [domain_id |-> domain_id, email |-> email, reason |-> reason]

\* SELECT * FROM blacklist WHERE domain_id = ? AND email = ?
SelectRows(table, domain_id, email) ==
    {r \in BagToSet(table) : r.domain_id = domain_id /\ r.email = email}

RECURSIVE SumCopies(_, _)
SumCopies(table, rows) ==
    IF rows = {} THEN 0
    ELSE LET r == CHOOSE x \in rows : TRUE IN
         CopiesIn(r, table) + SumCopies(table, rows \ {r})

RowCount(table, domain_id, email) ==
    SumCopies(table, SelectRows(table, domain_id, email))

\* The uniqueness constraint of the table on (domain_id, email): an INSERT
\* of a pair that has a row is rejected by the backend.
UniqueViolation(table, domain_id, email) ==
    SelectRows(table, domain_id, email) # {}

Ok == [ok |-> TRUE, err |-> <<>>]
Err(msg) == [ok |-> FALSE, err |-> msg]

\* err.to_string() of the two drivers, as words.
MySqlDuplicateMsg ==
    <<"error", "returned", "from", "database:", "1062", "(23000):",
      "Duplicate", "entry", "for", "key">>
MySqlFaultMsg ==
    <<"pool", "timed", "out", "while", "waiting", "for", "an", "open", "connection">>
PgDuplicateMsg ==
    <<"db", "error:", "ERROR:", "duplicate", "key", "value", "violates",
      "unique", "constraint">>
PgConnectMsg == <<"error", "connecting", "to", "server">>
PgFaultMsg == <<"connection", "closed">>

\* What can go wrong with one storage operation besides the statement's
\* own outcome: the query fails, or (Postgres) the connection made for it.
Faults(db) ==
    IF db = "MySQL" THEN {"none", "query"} ELSE {"none", "connect", "query"}

\* MySqlInsert with the statement written INSERT IGNORE: a pair that has a
\* row is skipped and the statement succeeds.
MySqlInsertIgnore(table, domain_id, email, reason, fault) ==
    IF fault # "none" THEN [table |-> table, result |-> Err(MySqlFaultMsg)]
    ELSE IF UniqueViolation(table, domain_id, email)
    THEN [table |-> table, result |-> Ok]
    ELSE [table |-> table (+) SetToBag({Row(domain_id, email, reason)}),
          result |-> Ok]

\* MySqlInsert with the statement written REPLACE INTO: the row of a pair
\* that has one is deleted and the new row inserted.
MySqlReplaceInto(table, domain_id, email, reason, fault) ==
    IF fault # "none" THEN [table |-> table, result |-> Err(MySqlFaultMsg)]
    ELSE [table |-> (table (-) SetToBag(SelectRows(table, domain_id, email)))
                        (+) SetToBag({Row(domain_id, email, reason)}),
          result |-> Ok]

\* MySqlInsert with the statement written ON DUPLICATE KEY UPDATE: a pair
\* that has a row gets the new reason and the statement succeeds.
MySqlInsertOnDuplicateKeyUpdate(table, domain_id, email, reason, fault) ==
    IF fault # "none" THEN [table |-> table, result |-> Err(MySqlFaultMsg)]
    ELSE [table |-> (table (-) SetToBag(SelectRows(table, domain_id, email)))
                        (+) SetToBag({Row(domain_id, email, reason)}),
          result |-> Ok]

\* INSERT INTO blacklist (domain_id, email, reason) VALUES (?,?,?) through
\* the sqlx pool.
MySqlInsert(table, domain_id, email, reason, fault) ==
    IF fault # "none" THEN [table |-> table, result |-> Err(MySqlFaultMsg)]
    ELSE IF UniqueViolation(table, domain_id, email)
    THEN [table |-> table, result |-> Err(MySqlDuplicateMsg)]
    ELSE [table |-> table (+) SetToBag({Row(domain_id, email, reason)}),
          result |-> Ok]

\* PgInsert with the statement written ON CONFLICT DO NOTHING: a pair that
\* has a row is skipped and the statement succeeds.
PgInsertOnConflictDoNothing(table, domain_id, email, reason, fault) ==
    IF fault = "connect" THEN [table |-> table, result |-> Err(PgConnectMsg)]
    ELSE IF fault = "query" THEN [table |-> table, result |-> Err(PgFaultMsg)]
    ELSE IF UniqueViolation(table, domain_id, email)
    THEN [table |-> table, result |-> Ok]
    ELSE [table |-> table (+) SetToBag({Row(domain_id, email, reason)}),
          result |-> Ok]

\* build_pg_pool, then INSERT INTO blacklist ... VALUES ($1,$2,$3).
PgInsert(table, domain_id, email, reason, fault) ==
    IF fault = "connect" THEN [table |-> table, result |-> Err(PgConnectMsg)]
    ELSE IF fault = "query" THEN [table |-> table, result |-> Err(PgFaultMsg)]
    ELSE IF UniqueViolation(table, domain_id, email)
    THEN [table |-> table, result |-> Err(PgDuplicateMsg)]
    ELSE [table |-> table (+) SetToBag({Row(domain_id, email, reason)}),
          result |-> Ok]

\* match &data.db_type in the persistence loop.
Insert(db, table, domain_id, email, reason, fault) ==
    IF db = "MySQL" THEN MySqlInsert(table, domain_id, email, reason, fault)
    ELSE PgInsert(table, domain_id, email, reason, fault)

\* err.contains(pattern), on words.
Contains(msg, pattern) ==
    \E i \in 0..(Len(msg) - Len(pattern)) :
        SubSeq(msg, i + 1, i + Len(pattern)) = pattern

DuplicatePattern == <<"Duplicate", "entry">>

\* Result<bool, String> of the lookup, and the connection failure that
\* answers before any query.
Found(b) == [kind |-> "ok", val |-> b]
LookupErr == [kind |-> "err", val |-> FALSE]
ConnectFailed == [kind |-> "noconn", val |-> FALSE]
NoResult == [kind |-> "none", val |-> FALSE]

\* MySqlLookup without the RowNotFound arm: every error of fetch_one is a
\* failure of the lookup.
MySqlLookupRowNotFoundIsError(table, domain_id, email, fault) ==
    LET query_result ==
            IF fault # "none" THEN "Error"
            ELSE IF SelectRows(table, domain_id, email) = {} THEN "RowNotFound"
            ELSE "Row"
    IN IF query_result = "Row" THEN Found(TRUE) ELSE LookupErr

\* fetch_one(pool): a row, RowNotFound, or another error.
MySqlLookup(table, domain_id, email, fault) ==
    LET query_result ==
            IF fault # "none" THEN "Error"
            ELSE IF SelectRows(table, domain_id, email) = {} THEN "RowNotFound"
            ELSE "Row"
    IN IF query_result = "Row" THEN Found(TRUE)
       ELSE IF query_result = "RowNotFound" THEN Found(FALSE)
       ELSE LookupErr

\* build_pg_pool, then query_opt: Some(row), None, or an error, which
\* query_opt also gives when more than one row comes back.
PgLookup(table, domain_id, email, fault) ==
    IF fault = "connect" THEN ConnectFailed
    ELSE LET n == RowCount(table, domain_id, email)
             query_result ==
                 IF fault = "query" \/ n > 1 THEN "Err"
                 ELSE IF n = 1 THEN "Some" ELSE "None"
         IN IF query_result = "Some" THEN Found(TRUE)
            ELSE IF query_result = "None" THEN Found(FALSE)
            ELSE LookupErr

Lookup(db, table, domain_id, email, fault) ==
    IF db = "MySQL" THEN MySqlLookup(table, domain_id, email, fault)
    ELSE PgLookup(table, domain_id, email, fault)

(***************************************************************************)
(* HTTP responses.                                                         *)
(***************************************************************************)
NoResp == [status |-> 0, body |-> "none"]
RespOk == [status |-> 200, body |-> "ok"]
RespSuccess == [status |-> 200, body |-> "status:success"]
RespFail == [status |-> 400, body |-> "status:fail"]
RespError == [status |-> 500, body |-> "status:error"]
RespBlacklisted(b) ==
    [status |-> 200, body |-> IF b THEN "blacklisted:true" ELSE "blacklisted:false"]
RespLookupError == [status |-> 500, body |-> "success:false"]

RespHealth == [status |-> 200, body |-> "status:success,message"]

\* match found { ... } at the end of is_email_blacklisted.
LookupResponse(found) ==
    IF found.kind = "ok" THEN RespBlacklisted(found.val) ELSE RespLookupError

(***************************************************************************)
(* The requests the model delivers.                                        *)
(***************************************************************************)
NotJson == [json |-> FALSE]
Json(o) == [json |-> TRUE, obj |-> o]

BareA == <<"a">>
BareB == <<"b">>
WrappedB == <<"B", "<", "b", ">">>
RawAddresses == {BareA, WrappedB}
LookupEmails == {BareA, BareB, WrappedB}

RecipientLists == UNION {[1..n -> RawAddresses] : n \in 0..MaxRecipients}

BounceJson(recipients) ==
    [feedbackId |-> "f1", bounceType |-> "Permanent", bounceSubType |-> "General",
     bouncedRecipients |->
         [i \in 1..Len(recipients) |-> [emailAddress |-> recipients[i]]],
     timestamp |-> "ts"]

\* A bounce detail without its bouncedRecipients field.
BounceJsonNoRecipients ==
    [feedbackId |-> "f1", bounceType |-> "Permanent", bounceSubType |-> "General",
     timestamp |-> "ts"]

\* The texts an envelope's Message field holds.
MessageTexts ==
    {NotJson,
     Json([message |-> "hello"]),
     Json([notificationType |-> "Received"]),
     Json([notificationType |-> "Bounce"]),
     Json([notificationType |-> "Bounce", bounce |-> BounceJsonNoRecipients]),
     Json([notificationType |-> "Complaint", bounce |-> BounceJson(<<BareA>>)])}
    \cup {Json([notificationType |-> t]) : t \in NotificationType \ {"Bounce"}}
    \cup {Json([notificationType |-> "Bounce", bounce |-> BounceJson(rs)]) :
            rs \in RecipientLists}

\* The request bodies posted to the SNS endpoint.
Bodies ==
    {NotJson,
     Json([SubscribeURL |-> "url"]),
     Json([Type |-> "UnsubscribeConfirmation"]),
     Json([Type |-> "SubscriptionConfirmation", SubscribeURL |-> "url"]),
     Json([Type |-> "SubscriptionConfirmation"]),
     Json([Type |-> "Notification"])}
    \cup {Json([Type |-> "Notification", Message |-> m]) : m \in MessageTexts}

(***************************************************************************)
(* State.                                                                  *)
(***************************************************************************)
VARIABLES
    db_type,    \* AppState.db_type: "MySQL" or "Postgres", fixed at startup
    blacklist,  \* the blacklist table
    req         \* the requests in flight, one per slot; besides the handler's
                \* own variables each records what the request met: the
                \* table on arrival (before), every insert attempted
                \* (attempts) and the fault injected into a lookup (fault)
VARIABLES
    sessions,   \* the backend sessions: how many are open, and how many of
                \* the MySQL pool's are checked out
    ops         \* the storage operations (an insert of the loop, a lookup)
                \* the requests in flight are issuing
VARIABLES
    norm        \* an address and what extract_email_address made of it,
                \* applied once and twice

vars == <<db_type, blacklist, req, norm, sessions, ops>>

\* A slot that holds no request.
IdleReq ==
    [pc |-> "idle", op |-> "none", domain_id |-> 0, bytes |-> NotJson,
     email |-> <<>>, reason |-> None, bounces |-> <<>>, idx |-> 0,
     attempts |-> <<>>, fetch |-> "none", found |-> NoResult, fault |-> "none",
     before |-> EmptyBag, resp |-> NoResp]

\* MySqlPoolOptions::new().max_connections(10)
PoolMax == 10

\* The storage operations that can be under way at once.
MaxOps == 11

Ops == 1..MaxOps

\* No session open, no operation under way.
NoSessions == [open |-> 0, in_use |-> 0]
NoOps == [o \in Ops |-> "idle"]

\* No address under extraction.
NormIdle == [input |-> <<>>, once |-> <<>>, twice |-> <<>>, calls |-> 0]

Init ==
    /\ db_type \in {"MySQL", "Postgres"}
    /\ blacklist = EmptyBag
    /\ req = [q \in Slots |-> IdleReq]
    /\ norm = NormIdle
    /\ sessions = NoSessions
    /\ ops = NoOps

(***************************************************************************)
(* handle_sns_notification, from the request to its first await or its     *)
(* response.                                                               *)
(***************************************************************************)
Finished(r, resp) == [r EXCEPT !.pc = "done", !.resp = resp]

\* A panic of the handler: the request ends with no response.
Aborted(r) == [r EXCEPT !.pc = "aborted"]

\* BounceStart binding the addresses as they came, not their extraction.
BounceStartKeepsRawAddress(r, msg) ==
    LET reason == SerializeMessage(msg) IN
    IF IsNone(msg.bounce) THEN Finished(r, RespOk)
    ELSE LET rs == msg.bounce[1].bounced_recipients
             bounces == [i \in 1..Len(rs) |-> rs[i].email_address]
         IN IF Len(bounces) = 0
            THEN Finished([r EXCEPT !.reason = Some(reason)], RespSuccess)
            ELSE [r EXCEPT !.pc = "insert", !.reason = Some(reason),
                           !.bounces = bounces, !.idx = 1]

\* BounceStart unwrapping the bounce detail instead of matching on it.
BounceStartUnwrapsDetail(r, msg) ==
    LET reason == SerializeMessage(msg) IN
    IF IsNone(msg.bounce) THEN Aborted(r)
    ELSE LET rs == msg.bounce[1].bounced_recipients
             bounces == [i \in 1..Len(rs) |-> extract_email_address(rs[i].email_address)]
         IN IF Len(bounces) = 0
            THEN Finished([r EXCEPT !.reason = Some(reason)], RespSuccess)
            ELSE [r EXCEPT !.pc = "insert", !.reason = Some(reason),
                           !.bounces = bounces, !.idx = 1]

\* handle_bounce up to its loop.
BounceStart(r, msg) ==
    LET reason == SerializeMessage(msg) IN
    IF IsNone(msg.bounce) THEN Finished(r, RespOk)
    ELSE LET rs == msg.bounce[1].bounced_recipients
             bounces == [i \in 1..Len(rs) |-> extract_email_address(rs[i].email_address)]
         IN IF Len(bounces) = 0
            THEN Finished([r EXCEPT !.reason = Some(reason)], RespSuccess)
            ELSE [r EXCEPT !.pc = "insert", !.reason = Some(reason),
                           !.bounces = bounces, !.idx = 1]

\* DispatchMessage without the catch-all arm: every subtype is handled as
\* a bounce.
DispatchMessageAlwaysBounce(r, msg) == BounceStart(r, msg)

\* The match on message.notification_type.
DispatchMessage(r, msg) ==
    IF msg.notification_type = "Bounce" THEN BounceStart(r, msg)
    ELSE Finished(r, RespOk)

\* The Notification arm: two unwraps, then the dispatch.
NotificationArm(r, notification) ==
    IF IsNone(notification.message) THEN Aborted(r)
    ELSE LET message == DecodeMessage(notification.message[1]) IN
         IF IsNone(message) THEN Aborted(r)
         ELSE DispatchMessage(r, message[1])

\* The SubscriptionConfirmation arm up to the outbound fetch.
SubscriptionArm(r, notification) ==
    IF IsNone(notification.subscribe_url) THEN Aborted(r)
    ELSE [r EXCEPT !.pc = "fetch"]

\* Dispatch with the envelope unwrapped instead of matched by let-else.
DispatchUnwrapsEnvelope(r) ==
    LET decoded == DecodeSnsNotification(r.bytes) IN
    IF IsNone(decoded) THEN Aborted(r)
    ELSE IF decoded[1].type_field = "SubscriptionConfirmation"
    THEN SubscriptionArm(r, decoded[1])
    ELSE NotificationArm(r, decoded[1])

Dispatch(r) ==
    LET decoded == DecodeSnsNotification(r.bytes) IN
    IF IsNone(decoded) THEN Finished(r, RespOk)
    ELSE IF decoded[1].type_field = "SubscriptionConfirmation"
    THEN SubscriptionArm(r, decoded[1])
    ELSE NotificationArm(r, decoded[1])

handle_sns_notification(q, domain_id, bytes) ==
    /\ req[q].pc = "idle"
    /\ req' = [req EXCEPT ![q] =
                 Dispatch([IdleReq EXCEPT !.op = "sns", !.domain_id = domain_id,
                                          !.bytes = bytes, !.before = blacklist])]
    /\ UNCHANGED <<db_type, blacklist, norm, sessions, ops>>

\* client.get(a).send().await: the result is dropped.
confirm_subscription(q, fetched) ==
    /\ req[q].pc = "fetch"
    /\ req' = [req EXCEPT ![q] =
                 Finished([req[q] EXCEPT !.fetch = IF fetched THEN "ok" ELSE "failed"],
                          RespOk)]
    /\ UNCHANGED <<db_type, blacklist, norm, sessions, ops>>

\* The response to a failed insert.
InsertFailure(err) ==
    IF Contains(err, DuplicatePattern) THEN RespFail ELSE RespError

\* PersistStep attempting every recipient and reporting a failure at the
\* end, instead of returning at the first one.
PersistStepKeepsGoing(r, result, fault) ==
    LET tried == [r EXCEPT !.attempts =
                     Append(@, [email |-> r.bounces[r.idx], ok |-> result.ok,
                                fault |-> fault])]
        failed == \E i \in 1..Len(tried.attempts) : ~tried.attempts[i].ok
    IN IF r.idx < Len(r.bounces) THEN [tried EXCEPT !.idx = r.idx + 1]
       ELSE IF ~result.ok THEN Finished(tried, InsertFailure(result.err))
       ELSE IF failed THEN Finished(tried, RespError)
       ELSE Finished(tried, RespSuccess)

\* PersistStep going on to the next recipient after a failed insert and
\* answering for the last one only.
PersistStepSkipsFailed(r, result, fault) ==
    LET tried == [r EXCEPT !.attempts =
                     Append(@, [email |-> r.bounces[r.idx], ok |-> result.ok,
                                fault |-> fault])]
    IN IF r.idx < Len(r.bounces) THEN [tried EXCEPT !.idx = r.idx + 1]
       ELSE IF ~result.ok THEN Finished(tried, InsertFailure(result.err))
       ELSE Finished(tried, RespSuccess)

\* What the loop does with the result of the insert of r.bounces[r.idx]:
\* return on an error, go on to the next recipient, or leave the loop and
\* answer success.
PersistStep(r, result, fault) ==
    LET tried == [r EXCEPT !.attempts =
                     Append(@, [email |-> r.bounces[r.idx], ok |-> result.ok,
                                fault |-> fault])]
    IN IF ~result.ok THEN Finished(tried, InsertFailure(result.err))
       ELSE IF r.idx = Len(r.bounces) THEN Finished(tried, RespSuccess)
       ELSE [tried EXCEPT !.idx = r.idx + 1]

\* One iteration of the persistence loop of handle_bounce, and the
\* response after the last one.
handle_bounce(q, fault) ==
    /\ req[q].pc = "insert"
    /\ LET r == req[q]
           out == Insert(db_type, blacklist, r.domain_id, r.bounces[r.idx],
                         r.reason[1], fault)
       IN /\ blacklist' = out.table
          /\ req' = [req EXCEPT ![q] = PersistStep(r, out.result, fault)]
    /\ UNCHANGED <<db_type, norm, sessions, ops>>

is_email_blacklisted(q, domain_id, email, fault) ==
    /\ req[q].pc = "idle"
    /\ LET found == Lookup(db_type, blacklist, domain_id, email, fault) IN
       req' = [req EXCEPT ![q] =
                 Finished([IdleReq EXCEPT !.op = "lookup", !.domain_id = domain_id,
                                          !.email = email, !.found = found,
                                          !.fault = fault, !.before = blacklist],
                          LookupResponse(found))]
    /\ UNCHANGED <<db_type, blacklist, norm, sessions, ops>>

\* GET /api/v1/health_check: a constant answer, no storage call.
health_checker_handler(q) ==
    /\ req[q].pc = "idle"
    /\ req' = [req EXCEPT ![q] =
                 Finished([IdleReq EXCEPT !.op = "health", !.before = blacklist],
                          RespHealth)]
    /\ UNCHANGED <<db_type, blacklist, norm, sessions, ops>>

\* The response is sent (or the aborted request dropped) and the slot is
\* free again.
Respond(q) ==
    /\ req[q].pc \in {"done", "aborted"}
    /\ req' = [req EXCEPT ![q] = IdleReq]
    /\ UNCHANGED <<db_type, blacklist, norm, sessions, ops>>

\* No other request is in flight.  Spec takes up a request only then: its
\* behaviours are the schedules in which the server's requests do not
\* overlap, so that a finished request sees the table as it left it.
OthersIdle(q) == \A p \in Slots \ {q} : req[p].pc = "idle"

Next ==
    \/ \E q \in Slots, domain_id \in Tenants, bytes \in Bodies :
           OthersIdle(q) /\ handle_sns_notification(q, domain_id, bytes)
    \/ \E q \in Slots, fetched \in BOOLEAN : confirm_subscription(q, fetched)
    \/ \E q \in Slots, fault \in Faults(db_type) : handle_bounce(q, fault)
    \/ \E q \in Slots, domain_id \in Tenants, email \in LookupEmails,
          fault \in Faults(db_type) :
           OthersIdle(q) /\ is_email_blacklisted(q, domain_id, email, fault)
    \/ \E q \in Slots : OthersIdle(q) /\ health_checker_handler(q)
    \/ \E q \in Slots : Respond(q)

Spec == Init /\ [][Next]_vars

(***************************************************************************)
(* Overlapping bounce requests: every slot takes up one bounce             *)
(* notification whenever it is free, whatever the other slots are doing,   *)
(* and the inserts of the requests in flight interleave in any order.      *)
(* Each INSERT is one step: the backend decides on it atomically.          *)
(***************************************************************************)
BounceBodies ==
    {Json([Type |-> "Notification",
           Message |-> Json([notificationType |-> "Bounce",
                             bounce |-> BounceJson(rs)])]) :
        rs \in RecipientLists}

NextConcurrent ==
    \/ \E q \in Slots, domain_id \in Tenants, bytes \in BounceBodies :
           handle_sns_notification(q, domain_id, bytes)
    \/ \E q \in Slots, fault \in Faults(db_type) : handle_bounce(q, fault)

SpecConcurrent == Init /\ [][NextConcurrent]_vars

(***************************************************************************)
(* The backend sessions of the storage operations.  On MySQL every         *)
(* operation runs on a connection of the one pool built at start-up: it    *)
(* takes an idle connection, lets the pool open one while fewer than       *)
(* PoolMax are open, and waits otherwise; the connection goes back to the  *)
(* pool, still open, when the statement is done.  On Postgres every        *)
(* operation calls build_pg_pool, which opens a connection of its own, and *)
(* the connection ends when the operation drops its client.                *)
(***************************************************************************)
MySqlAcquire(o) ==
    /\ sessions.in_use < PoolMax
    /\ sessions' = [open |-> IF sessions.in_use = sessions.open
                             THEN sessions.open + 1 ELSE sessions.open,
                    in_use |-> sessions.in_use + 1]
    /\ ops' = [ops EXCEPT ![o] = "running"]

MySqlWait(o) ==
    /\ sessions.in_use = PoolMax
    /\ ops' = [ops EXCEPT ![o] = "waiting"]
    /\ UNCHANGED sessions

\* tokio_postgres::connect(database_url, NoTls)
PgConnect(o) ==
    /\ sessions' = [sessions EXCEPT !.open = @ + 1]
    /\ ops' = [ops EXCEPT ![o] = "running"]

\* An operation is issued: .execute(pool) / .fetch_one(pool), or
\* build_pg_pool(&data.db_url).
StartOperation(o) ==
    /\ ops[o] = "idle"
    /\ IF db_type = "MySQL" THEN MySqlAcquire(o) \/ MySqlWait(o)
       ELSE PgConnect(o)
    /\ UNCHANGED <<db_type, blacklist, req, norm>>

\* A waiting operation gets the connection another one gave back.
AcquireAfterWait(o) ==
    /\ ops[o] = "waiting"
    /\ MySqlAcquire(o)
    /\ UNCHANGED <<db_type, blacklist, req, norm>>

\* The statement is done: the pooled connection is released, the Postgres
\* client is dropped.
FinishOperation(o) ==
    /\ ops[o] = "running"
    /\ ops' = [ops EXCEPT ![o] = "idle"]
    /\ sessions' = IF db_type = "MySQL"
                   THEN [sessions EXCEPT !.in_use = @ - 1]
                   ELSE [sessions EXCEPT !.open = @ - 1]
    /\ UNCHANGED <<db_type, blacklist, req, norm>>

NextSessions ==
    \/ \E o \in Ops : StartOperation(o)
    \/ \E o \in Ops : AcquireAfterWait(o)
    \/ \E o \in Ops : FinishOperation(o)

SpecSessions == Init /\ [][NextSessions]_vars

(***************************************************************************)
(* extract_email_address on its own: an address of at most MaxLen          *)
(* characters is drawn, and the function is applied to it and then to its  *)
(* own result.                                                             *)
(***************************************************************************)
MaxLen == 4

Chars == {"a", "<", ">", "\n"}

Strings == UNION {[1..n -> Chars] : n \in 0..MaxLen}

InitNormalize ==
    /\ db_type \in {"MySQL", "Postgres"}
    /\ blacklist = EmptyBag
    /\ req = [q \in Slots |-> IdleReq]
    /\ norm \in {[input |-> s, once |-> <<>>, twice |-> <<>>, calls |-> 0] :
                    s \in Strings}
    /\ sessions = NoSessions
    /\ ops = NoOps

NormalizeOnce ==
    /\ norm.calls = 0
    /\ norm' = [norm EXCEPT !.once = extract_email_address(norm.input),
                            !.calls = 1]
    /\ UNCHANGED <<db_type, blacklist, req, sessions, ops>>

NormalizeTwice ==
    /\ norm.calls = 1
    /\ norm' = [norm EXCEPT !.twice = extract_email_address(norm.once),
                            !.calls = 2]
    /\ UNCHANGED <<db_type, blacklist, req, sessions, ops>>

NextNormalize == NormalizeOnce \/ NormalizeTwice

SpecNormalize == InitNormalize /\ [][NextNormalize]_vars

(***************************************************************************)
(* Vocabulary of the properties.  The requests are classified by their     *)
(* bytes alone, not by what the handler made of them.                      *)
(***************************************************************************)
SnsSlots == {q \in Slots : req[q].op = "sns"}
LookupSlots == {q \in Slots : req[q].op = "lookup"}

Ended(r) == r.pc \in {"done", "aborted"}

\* The body is JSON with a Type of one of the two recognized kinds.
IsEnvelope(bytes) ==
    /\ bytes.json
    /\ "Type" \in DOMAIN bytes.obj
    /\ bytes.obj.Type \in {"SubscriptionConfirmation", "Notification"}

IsHandshake(bytes) ==
    IsEnvelope(bytes) /\ bytes.obj.Type = "SubscriptionConfirmation"

\* A NotificationDelivered envelope that carries an inline payload.
HasPayload(bytes) ==
    /\ IsEnvelope(bytes)
    /\ bytes.obj.Type = "Notification"
    /\ "Message" \in DOMAIN bytes.obj

Payload(bytes) == bytes.obj.Message

\* The payload is JSON and names the given subtype.
PayloadSubtypeIn(bytes, subtypes) ==
    /\ HasPayload(bytes)
    /\ Payload(bytes).json
    /\ "notificationType" \in DOMAIN Payload(bytes).obj
    /\ Payload(bytes).obj.notificationType \in subtypes

\* A bounce payload with a complete bounce detail, and its recipients.
IsBounceWithDetail(bytes) ==
    /\ PayloadSubtypeIn(bytes, {"Bounce"})
    /\ "bounce" \in DOMAIN Payload(bytes).obj
    /\ BounceRequired \subseteq DOMAIN Payload(bytes).obj.bounce

RawRecipients(bytes) ==
    LET rs == Payload(bytes).obj.bounce.bouncedRecipients
    IN [i \in 1..Len(rs) |-> rs[i].emailAddress]

\* The bare address of each address the model delivers.
BareOf(raw) == IF raw = WrappedB THEN BareB ELSE raw

Recipients(bytes) ==
    LET raw == RawRecipients(bytes) IN [i \in 1..Len(raw) |-> BareOf(raw[i])]

\* The rows the first k attempts of a request inserted.
RECURSIVE InsertedBy(_, _)
InsertedBy(r, k) ==
    IF k = 0 THEN EmptyBag
    ELSE IF r.attempts[k].ok
    THEN InsertedBy(r, k - 1)
           (+) SetToBag({Row(r.domain_id, r.attempts[k].email, r.reason[1])})
    ELSE InsertedBy(r, k - 1)

\* The table holds what it held when the request arrived plus the rows of
\* the request's successful inserts.
TableIsBeforePlusInserted(r) ==
    blacklist = r.before (+) InsertedBy(r, Len(r.attempts))

(***************************************************************************)
(* C1: a request body that is not a decodable envelope (not JSON, Type     *)
(* missing, Type not one of the two kinds) is answered 200 "ok" at once,   *)
(* with no insert attempted and the table as it was before the request.    *)
(***************************************************************************)
C1_UndecodableEnvelopeIsNoOp ==
    \A q \in SnsSlots :
        ~IsEnvelope(req[q].bytes) =>
            /\ req[q].pc = "done"
            /\ req[q].resp = RespOk
            /\ req[q].attempts = <<>>
            /\ blacklist = req[q].before

\* An unrecognized Type answered "ok" while the table holds rows.
C1_Witness ==
    \E q \in SnsSlots :
        /\ req[q].bytes.json
        /\ "Type" \in DOMAIN req[q].bytes.obj
        /\ ~IsEnvelope(req[q].bytes)
        /\ req[q].resp = RespOk
        /\ blacklist # EmptyBag

(***************************************************************************)
(* C2: the persistence loop attempts the recipients in payload order, all  *)
(* attempts before the last one succeeded, a failed attempt ends the       *)
(* request with a non-success response so that no later recipient is       *)
(* attempted, and the table holds exactly the rows it held before plus the *)
(* rows of the successful attempts (nothing is rolled back).               *)
(***************************************************************************)
C2_LoopStopsAtFirstFailure ==
    \A q \in SnsSlots :
        LET r == req[q]
            n == Len(r.attempts)
        IN n > 0 =>
            /\ IsBounceWithDetail(r.bytes)
            /\ n <= Len(Recipients(r.bytes))
            /\ \A i \in 1..n : r.attempts[i].email = Recipients(r.bytes)[i]
            /\ \A i \in 1..(n - 1) : r.attempts[i].ok
            /\ ~r.attempts[n].ok =>
                   /\ r.pc = "done"
                   /\ r.resp \in {RespFail, RespError}
            /\ TableIsBeforePlusInserted(r)

\* [dup, new]: the first recipient already had a row, the request ended
\* after one attempt and the second recipient has no row.
C2_Witness ==
    \E q \in SnsSlots :
        LET r == req[q] IN
        /\ r.pc = "done"
        /\ IsBounceWithDetail(r.bytes)
        /\ Len(Recipients(r.bytes)) = 2
        /\ Len(r.attempts) = 1
        /\ ~r.attempts[1].ok
        /\ r.attempts[1].fault = "none"
        /\ SelectRows(r.before, r.domain_id, Recipients(r.bytes)[1]) # {}
        /\ SelectRows(blacklist, r.domain_id, Recipients(r.bytes)[2]) = {}

\* The pair of the k-th attempt had a row when the insert was issued: it
\* was in the table on arrival or an earlier attempt inserted it.
ExistedAt(r, k) ==
    \/ SelectRows(r.before, r.domain_id, r.attempts[k].email) # {}
    \/ \E j \in 1..(k - 1) :
           r.attempts[j].ok /\ r.attempts[j].email = r.attempts[k].email

(***************************************************************************)
(* C3: on either backend an insert is rejected as a conflict exactly when  *)
(* its pair already has a row, and the request is then answered 400 fail;  *)
(* an insert that meets another storage failure is answered 500 error.     *)
(***************************************************************************)
C3_ConflictIs400OnEitherBackend ==
    \A q \in SnsSlots :
        LET r == req[q] IN
        \A k \in 1..Len(r.attempts) :
            /\ r.attempts[k].fault = "none" =>
                   /\ r.attempts[k].ok <=> ~ExistedAt(r, k)
                   /\ ~r.attempts[k].ok => r.resp = RespFail
            /\ r.attempts[k].fault # "none" => r.resp = RespError

(***************************************************************************)
(* C4: a NotificationDelivered envelope whose inline payload does not      *)
(* decode is answered 200 "ok": the handler does not abort and the table   *)
(* is as it was.                                                           *)
(***************************************************************************)
C4_PayloadDecodeFailureIsNoOp ==
    \A q \in SnsSlots :
        (HasPayload(req[q].bytes) /\ IsNone(DecodeMessage(Payload(req[q].bytes)))) =>
            /\ req[q].pc = "done"
            /\ req[q].resp = RespOk
            /\ blacklist = req[q].before

(***************************************************************************)
(* C5: a handshake-type envelope is answered 200 "ok" with no insert       *)
(* attempted and the table as it was, whether the fetch of the handshake   *)
(* URL succeeds or fails.                                                  *)
(***************************************************************************)
C5_HandshakeIsNoOp ==
    \A q \in SnsSlots :
        (IsHandshake(req[q].bytes) /\ Ended(req[q])) =>
            /\ req[q].pc = "done"
            /\ req[q].resp = RespOk
            /\ req[q].attempts = <<>>
            /\ blacklist = req[q].before

(***************************************************************************)
(* C6: no two rows of the table share (domain_id, email); an insert of a   *)
(* pair that already has a row is rejected by the backend and the pair     *)
(* keeps exactly one row, and an insert of a pair that has none succeeds.  *)
(***************************************************************************)
C6_PairIsUnique ==
    /\ \A row \in BagToSet(blacklist) :
           RowCount(blacklist, row.domain_id, row.email) = 1
    /\ \A q \in SnsSlots :
           LET r == req[q] IN
           \A k \in 1..Len(r.attempts) :
               r.attempts[k].fault = "none" =>
                   /\ r.attempts[k].ok <=> ~ExistedAt(r, k)
                   /\ RowCount(blacklist, r.domain_id, r.attempts[k].email) = 1

\* A second insert of a pair: rejected, and the pair has one row.
C6_Witness ==
    \E q \in SnsSlots :
        LET r == req[q] IN
        \E k \in 1..Len(r.attempts) :
            /\ r.attempts[k].fault = "none"
            /\ ExistedAt(r, k)
            /\ ~r.attempts[k].ok
            /\ RowCount(blacklist, r.domain_id, r.attempts[k].email) = 1

(***************************************************************************)
(* C7: a bounce payload with bounce detail for tenant t, whose bare        *)
(* recipients are pairwise distinct and had no row on arrival, and whose   *)
(* inserts met no storage fault, is answered 200 success; the table then   *)
(* holds what it held plus exactly one row (t, bare address, serialized    *)
(* notification) per recipient, and a lookup is true exactly for the pairs *)
(* just inserted and the pairs that had a row before.                      *)
(***************************************************************************)
PairwiseDistinct(seq) ==
    \A i, j \in 1..Len(seq) : i # j => seq[i] # seq[j]

C7_FreshBounceInsertsOneRowPerRecipient ==
    \A q \in SnsSlots :
        LET r == req[q]
            t == r.domain_id
        IN (/\ r.pc = "done"
            /\ IsBounceWithDetail(r.bytes)
            /\ PairwiseDistinct(Recipients(r.bytes))
            /\ \A i \in 1..Len(Recipients(r.bytes)) :
                   SelectRows(r.before, t, Recipients(r.bytes)[i]) = {}
            /\ \A k \in 1..Len(r.attempts) : r.attempts[k].fault = "none") =>
           LET rs == Recipients(r.bytes)
               reason == SerializeMessage(DecodeMessage(Payload(r.bytes))[1])
           IN /\ r.resp = RespSuccess
              /\ blacklist =
                     r.before (+) SetToBag({Row(t, rs[i], reason) : i \in 1..Len(rs)})
              /\ \A t2 \in Tenants, e \in LookupEmails :
                     Lookup(db_type, blacklist, t2, e, "none") =
                         Found(\/ (t2 = t /\ \E i \in 1..Len(rs) : rs[i] = e)
                               \/ SelectRows(r.before, t2, e) # {})

\* The two recipients a@ and "B" <b@> persisted for a tenant while the
\* other tenant holds a row already.
C7_Witness ==
    \E q \in SnsSlots :
        LET r == req[q] IN
        /\ r.pc = "done"
        /\ IsBounceWithDetail(r.bytes)
        /\ RawRecipients(r.bytes) = <<BareA, WrappedB>>
        /\ r.before # EmptyBag
        /\ r.resp = RespSuccess
        /\ Len(r.attempts) = 2

(***************************************************************************)
(* C8: a payload that decodes with a subtype other than Bounce is answered *)
(* 200 "ok" with no insert attempted and the table as it was.              *)
(***************************************************************************)
C8_NonBounceNeverTouchesStore ==
    \A q \in SnsSlots :
        (/\ PayloadSubtypeIn(req[q].bytes, NotificationType \ {"Bounce"})
         /\ IsSome(DecodeMessage(Payload(req[q].bytes)))) =>
            /\ req[q].pc = "done"
            /\ req[q].resp = RespOk
            /\ req[q].attempts = <<>>
            /\ blacklist = req[q].before

\* A complaint that carries a bounce detail, answered "ok" while the table
\* holds rows.
C8_Witness ==
    \E q \in SnsSlots :
        /\ PayloadSubtypeIn(req[q].bytes, {"Complaint"})
        /\ "bounce" \in DOMAIN Payload(req[q].bytes).obj
        /\ req[q].resp = RespOk
        /\ blacklist # EmptyBag

(***************************************************************************)
(* C9: a payload whose subtype is none of the recognized ones decodes and  *)
(* is ignored: the request is answered 200 "ok", the handler does not      *)
(* abort and the table is as it was.                                       *)
(***************************************************************************)
C9_UnknownSubtypeIsIgnored ==
    \A q \in SnsSlots :
        (/\ HasPayload(req[q].bytes)
         /\ Payload(req[q].bytes).json
         /\ "notificationType" \in DOMAIN Payload(req[q].bytes).obj
         /\ Payload(req[q].bytes).obj.notificationType \notin NotificationType) =>
            /\ IsSome(DecodeMessage(Payload(req[q].bytes)))
            /\ req[q].pc = "done"
            /\ req[q].resp = RespOk
            /\ blacklist = req[q].before

(***************************************************************************)
(* C10: a lookup leaves the table unchanged and, when the backend answers  *)
(* the query, returns Ok(true) if at least one row has the tenant and the  *)
(* email and Ok(false), not an error, if none has, on either backend.      *)
(***************************************************************************)
C10_LookupReportsExistence ==
    \A q \in LookupSlots :
        LET r == req[q]
            n == RowCount(blacklist, r.domain_id, r.email)
        IN /\ r.pc = "done"
           /\ blacklist = r.before
           /\ r.fault = "none" =>
                  /\ r.found = Found(n >= 1)
                  /\ r.resp = RespBlacklisted(n >= 1)

\* A lookup of a pair without a row, in a table that holds other rows,
\* answered Ok(false).
C10_Witness ==
    \E q \in LookupSlots :
        /\ req[q].fault = "none"
        /\ blacklist # EmptyBag
        /\ RowCount(blacklist, req[q].domain_id, req[q].email) = 0
        /\ req[q].found = Found(FALSE)
        /\ req[q].resp = RespBlacklisted(FALSE)

(***************************************************************************)
(* C11: address normalization is idempotent on every string, nested or     *)
(* repeated angle brackets included: applying it to its own result gives   *)
(* that result again; and an address without angle brackets is returned    *)
(* unchanged.                                                              *)
(***************************************************************************)
C11_NormalizeIsIdempotent ==
    /\ norm.calls >= 1 /\ ~HasChar(norm.input, "<")
                       /\ ~HasChar(norm.input, ">") =>
           norm.once = norm.input
    /\ norm.calls = 2 => norm.twice = norm.once

\* How often character c occurs in s.
Occurrences(s, c) == Cardinality({i \in 1..Len(s) : s[i] = c})

\* C11, amended: applying the normalization to its own result gives that
\* result again for every string with at most one '<' or at most one '>',
\* and an address without angle brackets is returned unchanged.
C11_NormalizeIsIdempotentOnOneBracket ==
    /\ norm.calls >= 1 /\ ~HasChar(norm.input, "<")
                       /\ ~HasChar(norm.input, ">") =>
           norm.once = norm.input
    /\ (/\ norm.calls = 2
        /\ \/ Occurrences(norm.input, "<") <= 1
           \/ Occurrences(norm.input, ">") <= 1) =>
           norm.twice = norm.once

\* A bracketed address with a second closing bracket was stripped by the
\* first application and left alone by the second.
C11_Witness ==
    /\ norm.calls = 2
    /\ Occurrences(norm.input, "<") = 1
    /\ Occurrences(norm.input, ">") = 2
    /\ norm.once # norm.input
    /\ HasChar(norm.once, ">")
    /\ norm.twice = norm.once

\* What the address normalizer is stated to return: the input when one of
\* the two brackets is missing or no '<' comes before a '>', and otherwise
\* what stands strictly between the first '<' and the last '>'.
BetweenFirstAndLast(s) ==
    IF ~HasChar(s, "<") \/ ~HasChar(s, ">") THEN s
    ELSE LET first == Min({i \in 1..Len(s) : s[i] = "<"})
             last == Max({j \in 1..Len(s) : s[j] = ">"})
         IN IF first < last THEN SubSeq(s, first + 1, last - 1) ELSE s

(***************************************************************************)
(* C16: extract_email_address returns its input when the input lacks '<'   *)
(* or '>' or has no '<' before a '>', and otherwise the substring strictly *)
(* between the first '<' and the last '>'.                                 *)
(***************************************************************************)
C16_NormalizeReturnsBetweenFirstAndLast ==
    norm.calls >= 1 => norm.once = BetweenFirstAndLast(norm.input)

\* A bounce payload that carries no bounce detail.
IsBounceWithoutDetail(bytes) ==
    /\ PayloadSubtypeIn(bytes, {"Bounce"})
    /\ "bounce" \notin DOMAIN Payload(bytes).obj

(***************************************************************************)
(* C13: a payload of subtype Bounce without a bounce detail has no         *)
(* recipients to blacklist: the request is answered 200 "ok", it does not  *)
(* abort, no insert is attempted and the table is as it was.               *)
(***************************************************************************)
C13_BounceWithoutDetailIsNoOp ==
    \A q \in SnsSlots :
        IsBounceWithoutDetail(req[q].bytes) =>
            /\ req[q].pc = "done"
            /\ req[q].resp = RespOk
            /\ req[q].bounces = <<>>
            /\ req[q].attempts = <<>>
            /\ blacklist = req[q].before

\* A detail-less bounce answered "ok" while the table holds rows.
C13_Witness ==
    \E q \in SnsSlots :
        /\ IsBounceWithoutDetail(req[q].bytes)
        /\ req[q].pc = "done"
        /\ req[q].resp = RespOk
        /\ blacklist # EmptyBag

(***************************************************************************)
(* C14: every request to the SNS endpoint ends with one of the four        *)
(* responses (200 "ok", 200 success, 400 fail, 500 error) and never aborts *)
(* its handler, also when a Notification envelope has no Message or a      *)
(* SubscriptionConfirmation envelope has no SubscribeURL.                  *)
(***************************************************************************)
C14_EveryRequestEndsWithAnOutcome ==
    \A q \in SnsSlots :
        /\ req[q].pc # "aborted"
        /\ req[q].pc = "done" =>
               req[q].resp \in {RespOk, RespSuccess, RespFail, RespError}

\* A bounce payload whose bounce detail lacks a required field.
IsBounceWithPartialDetail(bytes) ==
    /\ PayloadSubtypeIn(bytes, {"Bounce"})
    /\ "bounce" \in DOMAIN Payload(bytes).obj
    /\ ~(BounceRequired \subseteq DOMAIN Payload(bytes).obj.bounce)

(***************************************************************************)
(* C15: a bounce payload whose bounce detail lacks a field decodes with    *)
(* the field's default; without its recipients field it is processed as a  *)
(* bounce of zero recipients: answered with a 200, no insert attempted,    *)
(* the table as it was, and no decode failure.                             *)
(***************************************************************************)
C15_MissingDetailFieldsTakeDefaults ==
    \A q \in SnsSlots :
        IsBounceWithPartialDetail(req[q].bytes) =>
            /\ IsSome(DecodeMessage(Payload(req[q].bytes)))
            /\ req[q].pc = "done"
            /\ req[q].resp \in {RespOk, RespSuccess}
            /\ req[q].attempts = <<>>
            /\ blacklist = req[q].before

(***************************************************************************)
(* C17: the blacklist table only grows.  No step of an ingestion, a lookup *)
(* or a health check deletes or changes a row: every row keeps its copies, *)
(* a pair that a lookup reports as blacklisted is reported so after the    *)
(* step with the same row (its reason unchanged), and the table changes    *)
(* only by one row that the persistence loop of a bounce inserts for one   *)
(* of the payload's recipients.                                            *)
(***************************************************************************)
C17_StoreOnlyGrows ==
    [][/\ \A row \in BagToSet(blacklist) :
              CopiesIn(row, blacklist') = CopiesIn(row, blacklist)
       /\ \A t \in Tenants, e \in LookupEmails :
              Lookup(db_type, blacklist, t, e, "none") = Found(TRUE) =>
                  /\ Lookup(db_type, blacklist', t, e, "none") = Found(TRUE)
                  /\ SelectRows(blacklist', t, e) = SelectRows(blacklist, t, e)
       /\ blacklist' # blacklist =>
              \E q \in SnsSlots :
                  /\ req[q].pc = "insert"
                  /\ IsBounceWithDetail(req[q].bytes)
                  /\ \E i \in 1..Len(Recipients(req[q].bytes)) :
                         blacklist' = blacklist (+) SetToBag(
                             {Row(req[q].domain_id, Recipients(req[q].bytes)[i],
                                  req[q].reason[1])})]_vars

\* A bounce whose recipient was blacklisted by an earlier, different
\* payload was rejected, and the row still carries the earlier reason.
C17_Witness ==
    \E q \in SnsSlots :
        LET r == req[q] IN
        /\ r.pc = "done"
        /\ Len(r.attempts) = 1
        /\ ~r.attempts[1].ok
        /\ r.attempts[1].fault = "none"
        /\ blacklist = r.before
        /\ \E row \in SelectRows(blacklist, r.domain_id, r.attempts[1].email) :
               row.reason # r.reason[1]

\* The reason column handle_bounce writes for a bounce payload: the payload
\* as the service serializes it.
ReasonOf(bytes) == SerializeMessage(DecodeMessage(Payload(bytes))[1])

\* The row of the i-th recipient of a request's payload.
RowOfRecipient(r, i) ==
    Row(r.domain_id, Recipients(r.bytes)[i], ReasonOf(r.bytes))

\* The request stopped at its first recipient, or has not tried it yet: at
\* most one insert attempted, on the first recipient, not successful and
\* answered with a non-success response, and the table as it was when the
\* request arrived.
StopsAtFirstRecipient(r) ==
    /\ r.pc \in {"insert", "done"}
    /\ blacklist = r.before
    /\ Len(r.attempts) <= 1
    /\ r.pc = "insert" => r.attempts = <<>>
    /\ r.pc = "done" =>
           /\ Len(r.attempts) = 1
           /\ r.attempts[1].email = Recipients(r.bytes)[1]
           /\ ~r.attempts[1].ok
           /\ r.resp \in {RespFail, RespError}

(***************************************************************************)
(* C19: redelivery is idempotent on the table.  When a bounce payload with *)
(* at least one recipient arrives for a tenant whose table already holds   *)
(* the payload's row for every recipient (the payload was fully persisted  *)
(* before), the request leaves the table exactly as it was, and it stops   *)
(* at the first recipient with a non-success response; this holds for      *)
(* every redelivery, however many came before.                             *)
(***************************************************************************)
C19_RedeliveryIsIdempotent ==
    \A q \in SnsSlots :
        LET r == req[q]
            rs == Recipients(r.bytes)
        IN (/\ IsBounceWithDetail(r.bytes)
            /\ Len(rs) >= 1
            /\ \A i \in 1..Len(rs) :
                   RowOfRecipient(r, i) \in BagToSet(r.before)) =>
               StopsAtFirstRecipient(r)

\* A payload of two recipients, both rows in the table on arrival, was
\* rejected at its first recipient as a duplicate.
C19_Witness ==
    \E q \in SnsSlots :
        LET r == req[q] IN
        /\ IsBounceWithDetail(r.bytes)
        /\ Len(Recipients(r.bytes)) = 2
        /\ \A i \in 1..2 : RowOfRecipient(r, i) \in BagToSet(r.before)
        /\ r.pc = "done"
        /\ r.attempts[1].fault = "none"
        /\ ~r.attempts[1].ok
        /\ blacklist = r.before

(***************************************************************************)
(* C20: after a delivery that persisted its first recipients and failed at *)
(* a later one, a redelivery of the same payload fails at the first        *)
(* recipient, whose row now exists, and stops there: it attempts no later  *)
(* recipient, so the rows the failed delivery left out are not inserted by *)
(* redelivering.                                                           *)
(***************************************************************************)
C20_RedeliveryNeverCompletesPartialBounce ==
    \A q \in SnsSlots :
        LET r == req[q]
            rs == Recipients(r.bytes)
        IN (/\ IsBounceWithDetail(r.bytes)
            /\ Len(rs) >= 2
            /\ RowOfRecipient(r, 1) \in BagToSet(r.before)
            /\ \E k \in 2..Len(rs) :
                   RowOfRecipient(r, k) \notin BagToSet(r.before)) =>
               /\ StopsAtFirstRecipient(r)
               /\ \A k \in 2..Len(rs) :
                      RowOfRecipient(r, k) \notin BagToSet(r.before) =>
                          RowOfRecipient(r, k) \notin BagToSet(blacklist)

\* The first recipient's row of this payload was in the table, the second
\* recipient had no row; the redelivery was rejected at the first and the
\* second still has no row.
C20_Witness ==
    \E q \in SnsSlots :
        LET r == req[q] IN
        /\ IsBounceWithDetail(r.bytes)
        /\ Len(Recipients(r.bytes)) = 2
        /\ RowOfRecipient(r, 1) \in BagToSet(r.before)
        /\ SelectRows(r.before, r.domain_id, Recipients(r.bytes)[2]) = {}
        /\ r.pc = "done"
        /\ r.attempts[1].fault = "none"
        /\ ~r.attempts[1].ok
        /\ SelectRows(blacklist, r.domain_id, Recipients(r.bytes)[2]) = {}

\* The insert attempts of the requests in flight on the pair (t, e), each
\* as <<slot, position>>.
AttemptsOn(t, e) ==
    {a \in Slots \X (1..MaxRecipients) :
        /\ req[a[1]].op = "sns"
        /\ req[a[1]].domain_id = t
        /\ a[2] <= Len(req[a[1]].attempts)
        /\ req[a[1]].attempts[a[2]].email = e}

AttemptOf(a) == req[a[1]].attempts[a[2]]

(***************************************************************************)
(* C12: when overlapping requests insert the same (domain_id, email), in   *)
(* every interleaving exactly one of the inserts succeeds, every other     *)
(* insert that reaches the backend is rejected and ends its request with a *)
(* non-success response, and the table holds exactly one row for the pair. *)
(***************************************************************************)
C12_ConcurrentDuplicatesInsertOnce ==
    \A t \in Tenants, e \in {BareA, BareB} :
        LET ok == {a \in AttemptsOn(t, e) : AttemptOf(a).ok}
            reached == {a \in AttemptsOn(t, e) : AttemptOf(a).fault = "none"}
        IN /\ RowCount(blacklist, t, e) = Cardinality(ok)
           /\ Cardinality(ok) <= 1
           /\ reached # {} =>
                  /\ Cardinality(ok) = 1
                  /\ RowCount(blacklist, t, e) = 1
                  /\ ok \subseteq reached
                  /\ \A a \in reached \ ok :
                         /\ req[a[1]].pc = "done"
                         /\ a[2] = Len(req[a[1]].attempts)
                         /\ req[a[1]].resp \in {RespFail, RespError}

\* Two requests in flight together, each the first to insert one pair and
\* rejected on the pair the other inserted: an outcome that only
\* overlapping requests produce.
C12_Witness ==
    \E p, q \in SnsSlots :
        /\ p # q
        /\ req[p].domain_id = req[q].domain_id
        /\ Len(req[p].attempts) = 2 /\ Len(req[q].attempts) = 2
        /\ req[p].attempts[1].ok /\ req[q].attempts[1].ok
        /\ req[p].attempts[2].email = req[q].attempts[1].email
        /\ req[q].attempts[2].email = req[p].attempts[1].email
        /\ req[p].attempts[2].fault = "none" /\ ~req[p].attempts[2].ok
        /\ req[q].attempts[2].fault = "none" /\ ~req[q].attempts[2].ok
        /\ \A e \in {BareA, BareB} :
               RowCount(blacklist, req[p].domain_id, e) = 1

(***************************************************************************)
(* C18: on either backend the number of open backend sessions never        *)
(* exceeds the pool bound, however many storage operations are under way;  *)
(* no more operations than the bound hold a session at once, and an        *)
(* operation waits only while every session of the pool is open.           *)
(***************************************************************************)
C18_SessionsNeverExceedPool ==
    /\ sessions.open <= PoolMax
    /\ Cardinality({o \in Ops : ops[o] = "running"}) <= PoolMax
    /\ (\E o \in Ops : ops[o] = "waiting") => sessions.open = PoolMax

====
